---------------------------- MODULE Spec2Model ----------------------------
(* A model of src/database.py: the Database handle (connect,              *)
(* check_connection) and its operations clone_from_another_database,      *)
(* clone_single_table, insert_data, create_table, restore_from_sql_file   *)
(* and import_json_to_database, each stepped statement by statement       *)
(* against a model of the two MySQL servers.  Every statement sent to a   *)
(* server may succeed, fail with a driver error (mysql.connector.Error)   *)
(* or fail because the connection was lost.                               *)
EXTENDS Integers, Sequences, FiniteSets, TLC

(* ---------------------------------------------------------------------- *)
(* Bounds of the model.                                                   *)
(* ---------------------------------------------------------------------- *)
MaxTables == 2
MaxRows == 2
MaxCalls == 2

(* ---------------------------------------------------------------------- *)
(* Names and values.                                                      *)
(* ---------------------------------------------------------------------- *)
SourceDbName == "shop"
TargetDbNames == {"shop", "copy"}
TableNames == {"users", "orders", "shop"}
AllNames == TableNames \cup TargetDbNames
ColLists == {<<"id">>, <<"id", "shop">>}
RowCounts == {0, MaxRows}

Range(s) == {s[k] : k \in 1..Len(s)}
NoDup(s) == \A a, b \in 1..Len(s) : s[a] = s[b] => a = b

Null == [kind |-> "null", n |-> 0]
NaN == [kind |-> "nan", n |-> 0]
Val(k) == [kind |-> "val", n |-> k]

(* The rows a SELECT * returns from a source table: dictionaries keyed by *)
(* the table's columns.                                                   *)
SourceRows(t) == [k \in 1..t.n |-> [c \in Range(t.cols) |-> Val(k)]]

(* ---------------------------------------------------------------------- *)
(* The target server: the schema (database) may or may not exist; each    *)
(* table has its columns, its committed rows and the rows of the open     *)
(* transaction.                                                           *)
(* ---------------------------------------------------------------------- *)
NoTable == [cols |-> <<>>, rows |-> <<>>, pend |-> <<>>]
OldTable == [cols |-> <<"old">>, rows |-> <<[c \in {"old"} |-> Val(0)]>>, pend |-> <<>>]
EmptyTables == [nm \in AllNames |-> NoTable]

CommitAll(tb) == [nm \in DOMAIN tb |-> [tb[nm] EXCEPT !.rows = tb[nm].rows \o tb[nm].pend, !.pend = <<>>]]
RollbackAll(tb) == [nm \in DOMAIN tb |-> [tb[nm] EXCEPT !.pend = <<>>]]

(* A statement is a record with a kind k and, by kind, a table name t,    *)
(* a column list cols and a row sequence rows.                            *)
Stmt(k) == [k |-> k, t |-> "", cols |-> <<>>, rows |-> <<>>]
StmtT(k, t) == [k |-> k, t |-> t, cols |-> <<>>, rows |-> <<>>]
StmtCreate(ddl) == [k |-> "CREATE TABLE", t |-> ddl.name, cols |-> ddl.cols, rows |-> <<>>]
StmtInsert(t, cols, rows) == [k |-> "INSERT", t |-> t, cols |-> cols, rows |-> rows]

TableLevel == {"DROP TABLE", "CREATE TABLE", "INSERT"}

(* Whether the server accepts the statement in database state db.         *)
Accepts(db, s) ==
  CASE s.k = "USE" -> db.schema
    [] s.k = "DROP TABLE" -> db.schema
    [] s.k = "CREATE TABLE" -> db.schema /\ db.tables[s.t] = NoTable /\ NoDup(s.cols)
    [] s.k = "INSERT" -> /\ db.schema
                         /\ db.tables[s.t] # NoTable
                         /\ Range(s.cols) \subseteq Range(db.tables[s.t].cols)
    [] OTHER -> TRUE

(* A row as stored: the columns the INSERT names take the given values,   *)
(* the others are NULL.                                                   *)
Stored(tcols, row, cols) == [c \in Range(tcols) |-> IF c \in Range(cols) THEN row[c] ELSE Null]
StoredRows(tcols, rows, cols) == [k \in 1..Len(rows) |-> Stored(tcols, rows[k], cols)]

(* The database state after an accepted statement.  DDL commits the open  *)
(* transaction implicitly.                                                *)
Effect(db, s) ==
  CASE s.k = "CREATE DATABASE" -> [db EXCEPT !.schema = TRUE, !.tables = CommitAll(db.tables)]
    [] s.k = "FK0" -> [db EXCEPT !.fk = FALSE]
    [] s.k = "FK1" -> [db EXCEPT !.fk = TRUE]
    [] s.k = "DROP TABLE" -> [db EXCEPT !.tables = [CommitAll(db.tables) EXCEPT ![s.t] = NoTable]]
    [] s.k = "CREATE TABLE" ->
         [db EXCEPT !.tables = [CommitAll(db.tables) EXCEPT
                                  ![s.t] = [cols |-> s.cols, rows |-> <<>>, pend |-> <<>>]]]
    [] s.k = "INSERT" ->
         [db EXCEPT !.tables[s.t].pend = @ \o StoredRows(db.tables[s.t].cols, s.rows, s.cols)]
    [] s.k = "COMMIT" -> [db EXCEPT !.tables = CommitAll(db.tables)]
    [] OTHER -> db

(* The same server when the statements sent were CREATE TABLE IF NOT      *)
(* EXISTS with no DROP TABLE before it: an existing table is kept.        *)
ExecuteKeepingTables(db, s) ==
  CASE s.k = "DROP TABLE" -> [ok |-> db.schema, db |-> db]
    [] s.k = "CREATE TABLE" /\ db.schema /\ db.tables[s.t] # NoTable -> [ok |-> TRUE, db |-> db]
    [] OTHER -> [ok |-> Accepts(db, s), db |-> IF Accepts(db, s) THEN Effect(db, s) ELSE db]

(* What the server does with a statement: whether it accepts it, and the  *)
(* database state after it.                                               *)
Execute(db, s) == [ok |-> Accepts(db, s), db |-> IF Accepts(db, s) THEN Effect(db, s) ELSE db]


(* ---------------------------------------------------------------------- *)
(* The source server: the tables of the source schema in the order        *)
(* SHOW TABLES lists them, each with its columns and its number of rows.  *)
(* ---------------------------------------------------------------------- *)
SourceTables == [name : TableNames, cols : ColLists, n : RowCounts]
Listings ==
  {l \in UNION {[1..k -> SourceTables] : k \in 0..MaxTables} :
     \A a, b \in 1..Len(l) : l[a].name = l[b].name => a = b}

(* The target server before the program runs: the schema is absent, or    *)
(* present with no table, or present with an unrelated table under every  *)
(* name.                                                                  *)
TargetTables == {EmptyTables, [nm \in AllNames |-> OldTable]}
Targets ==
  {[name |-> d, schema |-> FALSE, tables |-> EmptyTables, fk |-> TRUE] : d \in TargetDbNames}
  \cup [name : TargetDbNames, schema : {TRUE}, tables : TargetTables, fk : {TRUE}]

(* The data frames and column arguments handed to insert_data.            *)
NoneCols == <<"None">>
FrameNone == [cols |-> <<"id">>, rows |-> <<>>]
FrameId == [cols |-> <<"id">>, rows |-> <<[c \in {"id"} |-> Val(1)], [c \in {"id"} |-> NaN]>>]
FrameIdShop ==
  [cols |-> <<"id", "shop">>,
   rows |-> <<[c \in {"id", "shop"} |-> IF c = "id" THEN Val(1) ELSE NaN]>>]
InsertInputs ==
  {[df |-> FrameNone, columns |-> NoneCols],
   [df |-> FrameId, columns |-> NoneCols],
   [df |-> FrameIdShop, columns |-> <<"id">>],
   [df |-> FrameId, columns |-> <<"id", "shop">>]}
InsertTables == {"users"}
NoFrame == [cols |-> <<>>, rows |-> <<>>]

(* The file argument of restore_from_sql_file and import_json_to_database: *)
(* unreadable, a script (its fragments between the ";"), or a JSON        *)
(* document (whether it has the "table" and "rows" keys, and its rows as  *)
(* the data frame built from them).                                       *)
NoFile == [kind |-> "none", commands |-> <<>>, keys |-> FALSE, frame |-> NoFrame]
Unreadable == [NoFile EXCEPT !.kind = "unreadable"]
Blank == Stmt("")
UsersDdl == [name |-> "users", cols |-> <<"id">>]
Scripts ==
  {<<Stmt("CREATE DATABASE"), Stmt("USE"), StmtCreate(UsersDdl), Blank>>,
   <<Stmt("USE"), StmtInsert("users", <<"id">>, <<[c \in {"id"} |-> Val(1)]>>), Blank>>}
SqlFiles == {Unreadable} \cup {[NoFile EXCEPT !.kind = "sql", !.commands = c] : c \in Scripts}
JsonFiles ==
  {Unreadable, [NoFile EXCEPT !.kind = "json"]}
  \cup {[NoFile EXCEPT !.kind = "json", !.keys = TRUE, !.frame = f] : f \in {FrameNone, FrameId, FrameIdShop}}
(* The operation argument of create_table. *)
Operations == {UsersDdl}

VARIABLES
  source,             \* the source schema's tables, in listing order
  target,             \* the target server and session: name, schema, tables, fk
  srcConn, tgtConn,   \* each handle's self.connection: "none", "dead" or "live"
  op, table_name, data_df, columns, file,   \* the running operation and its arguments
  pc,                 \* the statement the running operation is at
  ret, exc, result,   \* the pending return value, the pending exception, the outcome
  source_cursor, target_cursor,       \* "unbound", "open" or "closed"
  tables, idx,        \* the fetched table listing and the loop position
  create_table_stmt,  \* the creation statement fetched for the current table
  rows,               \* the rows fetched for the current table
  log,                \* the statements sent to the target by the running operation
  slog,               \* how many statements the running operation sent to the source
  pre,                \* the target and the handles as the running operation found them
  hist                \* the operations the caller has completed

vars == <<source, target, srcConn, tgtConn, op, table_name, data_df, columns, file, pc,
          ret, exc, result, source_cursor, target_cursor, tables, idx,
          create_table_stmt, rows, log, slog, pre, hist>>

env == <<source, srcConn, op, table_name, data_df, columns, file, pre, hist>>
envS == <<source, op, table_name, data_df, columns, file, pre, hist>>
NoDdl == [name |-> "", cols |-> <<>>]
Snapshot == [schema |-> target.schema, tables |-> target.tables, fk |-> target.fk,
             tgtConn |-> tgtConn, srcConn |-> srcConn]

Init ==
  /\ source \in Listings
  /\ target \in Targets
  /\ srcConn = "none"
  /\ tgtConn = "none"
  /\ op = "none"
  /\ table_name = ""
  /\ data_df = NoFrame
  /\ columns = NoneCols
  /\ file = NoFile
  /\ pc = "idle"
  /\ ret = "none"
  /\ exc = "none"
  /\ result = "none"
  /\ source_cursor = "unbound"
  /\ target_cursor = "unbound"
  /\ tables = <<>>
  /\ idx = 0
  /\ create_table_stmt = NoDdl
  /\ rows = <<>>
  /\ log = <<>>
  /\ slog = 0
  /\ pre = Snapshot
  /\ hist = <<>>

(* ---------------------------------------------------------------------- *)
(* Database.connect and Database.check_connection.                        *)
(* ---------------------------------------------------------------------- *)
ConnectOutcomes == {"live", "dead", "none"}

(* connect() on the source handle, between operations: a live session, a  *)
(* session object that reports itself not connected, or an exception that *)
(* leaves the old value of self.connection.                               *)
ConnectSource ==
  /\ pc = "idle"
  /\ \E o \in ConnectOutcomes : srcConn' = IF o = "none" THEN srcConn ELSE o
  /\ UNCHANGED <<source, target, tgtConn, op, table_name, data_df, columns, file, pc,
                 ret, exc, result, source_cursor, target_cursor, tables, idx,
                 create_table_stmt, rows, log, slog, pre, hist>>

(* connect() on the target handle; a new session replaces the old one,    *)
(* whose open transaction is gone, and starts with foreign-key            *)
(* enforcement on.                                                        *)
ConnectTarget ==
  /\ pc = "idle"
  /\ \E o \in ConnectOutcomes :
       /\ tgtConn' = IF o = "none" THEN tgtConn ELSE o
       /\ target' = IF o = "none" THEN target
                    ELSE [target EXCEPT !.fk = TRUE, !.tables = RollbackAll(@)]
  /\ UNCHANGED <<source, srcConn, op, table_name, data_df, columns, file, pc,
                 ret, exc, result, source_cursor, target_cursor, tables, idx,
                 create_table_stmt, rows, log, slog, pre, hist>>

(* check_connection without the is_connected() test. *)
check_connection_exists(conn) == conn # "none"

check_connection(conn) == conn = "live"

(* ---------------------------------------------------------------------- *)
(* Sending a statement.                                                   *)
(* ---------------------------------------------------------------------- *)
TargetOutcomes == {"ok", "err", "lost"}
SourceOutcomes == {"ok", "err", "lost"}

Succeeds(s, o) == o = "ok" /\ Execute(target, s).ok

(* The target after statement s with outcome o: its effect if the server  *)
(* accepts it; nothing if it fails; a lost connection also rolls the open *)
(* transaction back.                                                      *)
TargetExec(s, o) ==
  /\ target' = IF Succeeds(s, o) THEN Execute(target, s).db
               ELSE IF o = "lost" THEN [target EXCEPT !.tables = RollbackAll(@)]
               ELSE target
  /\ tgtConn' = IF o = "lost" THEN "dead" ELSE tgtConn
  /\ log' = Append(log, [k |-> s.k, t |-> s.t, ok |-> Succeeds(s, o)])

(* The source handle after a call on it with outcome o. *)
SourceConn(o) == srcConn' = IF o = "lost" THEN "dead" ELSE srcConn

(* target_cursor = self.connection.cursor() *)
TargetCursor(o) ==
  /\ target_cursor' = IF o = "ok" THEN "open" ELSE target_cursor
  /\ tgtConn' = IF o = "lost" THEN "dead" ELSE tgtConn
  /\ target' = IF o = "lost" THEN [target EXCEPT !.tables = RollbackAll(@)] ELSE target

(* The caller starts an operation: the locals are fresh, and the          *)
(* operation returns False at once unless the handles it checks are       *)
(* healthy.  The caller runs one operation, and may run a full clone      *)
(* again after a full clone that returned True.                           *)
Enter(name, healthy, first) ==
  /\ pc = "idle"
  /\ Len(hist) < MaxCalls
  /\ hist # <<>> => name = "clone"
  /\ op' = name
  /\ pc' = IF healthy THEN first ELSE "done"
  /\ result' = IF healthy THEN "none" ELSE "false"
  /\ ret' = "none"
  /\ exc' = "none"
  /\ source_cursor' = "unbound"
  /\ target_cursor' = "unbound"
  /\ tables' = <<>>
  /\ idx' = 0
  /\ create_table_stmt' = NoDdl
  /\ rows' = <<>>
  /\ log' = <<>>
  /\ slog' = 0
  /\ pre' = Snapshot
  /\ UNCHANGED <<source, target, srcConn, tgtConn, hist>>

(* A full clone has returned True and the caller, who may repeat it,      *)
(* takes note of the run.                                                 *)
Return ==
  /\ pc = "done"
  /\ op = "clone"
  /\ result = "true"
  /\ Len(hist) + 1 < MaxCalls
  /\ pc' = "idle"
  /\ hist' = Append(hist, [op |-> op, result |-> result, schema |-> pre.schema])
  /\ UNCHANGED <<source, target, srcConn, tgtConn, op, table_name, data_df, columns, file,
                 ret, exc, result, source_cursor, target_cursor, tables, idx,
                 create_table_stmt, rows, log, slog, pre>>

(* How a statement inside a try block ends: normally, with a driver error *)
(* (except mysql.connector.Error: return False) or with another exception *)
(* that no except clause catches; fin is the finally block.               *)
Ok(next) == pc' = next /\ UNCHANGED <<ret, exc>>
DriverError(fin) == pc' = fin /\ ret' = "false" /\ UNCHANGED exc
OtherError(fin) == pc' = fin /\ exc' = "raised" /\ UNCHANGED ret

(* A statement on the target inside the try block. *)
TryTarget(s, next, fin) ==
  \E o \in TargetOutcomes :
    /\ TargetExec(s, o)
    /\ IF Succeeds(s, o) THEN Ok(next) ELSE DriverError(fin)

(* A statement on the source inside the try block. *)
TrySource(next, fin) ==
  \E o \in SourceOutcomes :
    /\ slog' = slog + 1
    /\ SourceConn(o)
    /\ IF o = "ok" THEN Ok(next) ELSE DriverError(fin)

(* create_table_stmt.replace(f"`{source_db.db_name}`", f"`{self.db_name}`"): *)
(* every back-quoted identifier equal to the source schema name becomes   *)
(* the target schema name.                                                *)
Replace(x, from, to) == IF x = from THEN to ELSE x
modified_create_stmt(ddl, from, to) ==
  [name |-> Replace(ddl.name, from, to),
   cols |-> [k \in 1..Len(ddl.cols) |-> Replace(ddl.cols[k], from, to)]]

(* SHOW CREATE TABLE for a table of the source. *)
ShowCreate(t) == [name |-> t.name, cols |-> t.cols]
ShowCreateOutcomes == SourceOutcomes \cup {"nokey"}

(* The result of the operation once its finally block has run. *)
Outcome == IF exc = "raised" THEN "raised" ELSE ret

Close(c) == IF c = "open" THEN "closed" ELSE c

(* ---------------------------------------------------------------------- *)
(* Database.clone_from_another_database                                   *)
(* ---------------------------------------------------------------------- *)
CallClone ==
  /\ Enter("clone", check_connection(tgtConn) /\ check_connection(srcConn), "cd_source_cursor")
  /\ table_name' = ""
  /\ data_df' = NoFrame
  /\ columns' = NoneCols
  /\ file' = NoFile

CloneSourceCursor ==
  /\ pc = "cd_source_cursor"
  /\ \E o \in SourceOutcomes :
       /\ SourceConn(o)
       /\ IF o = "ok" THEN source_cursor' = "open" /\ Ok("cd_target_cursor")
          ELSE UNCHANGED source_cursor /\ DriverError("cd_finally")
  /\ UNCHANGED <<envS, target, tgtConn, result, target_cursor, tables, idx,
                 create_table_stmt, rows, log, slog>>

CloneTargetCursor ==
  /\ pc = "cd_target_cursor"
  /\ \E o \in TargetOutcomes :
       /\ TargetCursor(o)
       /\ IF o = "ok" THEN Ok("cd_create_database") ELSE DriverError("cd_finally")
  /\ UNCHANGED <<env, result, source_cursor, tables, idx, create_table_stmt, rows, log, slog>>

CloneCreateDatabase ==
  /\ pc = "cd_create_database"
  /\ TryTarget(Stmt("CREATE DATABASE"), "cd_use", "cd_finally")
  /\ UNCHANGED <<env, result, source_cursor, target_cursor, tables, idx,
                 create_table_stmt, rows, slog>>

CloneUse ==
  /\ pc = "cd_use"
  /\ TryTarget(Stmt("USE"), "cd_fk_off", "cd_finally")
  /\ UNCHANGED <<env, result, source_cursor, target_cursor, tables, idx,
                 create_table_stmt, rows, slog>>

(* The clone without the statement that disables foreign-key checks. *)
CloneFkOffSkipped ==
  /\ pc = "cd_fk_off"
  /\ pc' = "cd_source_use"
  /\ UNCHANGED <<env, target, tgtConn, log, ret, exc, result, source_cursor, target_cursor,
                 tables, idx, create_table_stmt, rows, slog>>

CloneFkOff ==
  /\ pc = "cd_fk_off"
  /\ TryTarget(Stmt("FK0"), "cd_source_use", "cd_finally")
  /\ UNCHANGED <<env, result, source_cursor, target_cursor, tables, idx,
                 create_table_stmt, rows, slog>>

CloneSourceUse ==
  /\ pc = "cd_source_use"
  /\ TrySource("cd_show_tables", "cd_finally")
  /\ UNCHANGED <<envS, target, tgtConn, result, source_cursor, target_cursor, tables, idx,
                 create_table_stmt, rows, log>>

(* SHOW TABLES and fetchall; the loop starts at the first table, or is    *)
(* skipped when there is none.                                            *)
CloneShowTables ==
  /\ pc = "cd_show_tables"
  /\ \E o \in SourceOutcomes :
       /\ slog' = slog + 1
       /\ SourceConn(o)
       /\ IF o = "ok"
          THEN /\ tables' = source
               /\ idx' = 1
               /\ Ok(IF source = <<>> THEN "cd_fk_on" ELSE "cd_show_create")
          ELSE UNCHANGED <<tables, idx>> /\ DriverError("cd_finally")
  /\ UNCHANGED <<envS, target, tgtConn, result, source_cursor, target_cursor,
                 create_table_stmt, rows, log>>

(* SHOW CREATE TABLE, fetchone()["Create Table"] and the rewrite. *)
CloneShowCreate ==
  /\ pc = "cd_show_create"
  /\ \E o \in ShowCreateOutcomes :
       /\ slog' = slog + 1
       /\ SourceConn(o)
       /\ CASE o = "ok" ->
                 /\ create_table_stmt' =
                      modified_create_stmt(ShowCreate(tables[idx]), SourceDbName, target.name)
                 /\ Ok("cd_use_table")
            [] o \in {"err", "lost"} -> UNCHANGED create_table_stmt /\ DriverError("cd_finally")
            [] o = "nokey" -> UNCHANGED create_table_stmt /\ OtherError("cd_finally")
  /\ UNCHANGED <<envS, target, tgtConn, result, source_cursor, target_cursor, tables, idx,
                 rows, log>>

CloneUseTable ==
  /\ pc = "cd_use_table"
  /\ TryTarget(Stmt("USE"), "cd_drop", "cd_finally")
  /\ UNCHANGED <<env, result, source_cursor, target_cursor, tables, idx,
                 create_table_stmt, rows, slog>>

CloneDrop ==
  /\ pc = "cd_drop"
  /\ TryTarget(StmtT("DROP TABLE", tables[idx].name), "cd_create", "cd_finally")
  /\ UNCHANGED <<env, result, source_cursor, target_cursor, tables, idx,
                 create_table_stmt, rows, slog>>

CloneCreate ==
  /\ pc = "cd_create"
  /\ TryTarget(StmtCreate(create_table_stmt), "cd_select", "cd_finally")
  /\ UNCHANGED <<env, result, source_cursor, target_cursor, tables, idx,
                 create_table_stmt, rows, slog>>

(* The loop with "if not rows: continue": an empty table skips the       *)
(* commit as well as the insert.                                          *)
CloneSelectSkipEmpty ==
  /\ pc = "cd_select"
  /\ \E o \in SourceOutcomes :
       /\ slog' = slog + 1
       /\ SourceConn(o)
       /\ IF o = "ok"
          THEN /\ rows' = SourceRows(tables[idx])
               /\ IF SourceRows(tables[idx]) # <<>>
                  THEN Ok("cd_insert") /\ UNCHANGED idx
                  ELSE /\ idx' = idx + 1
                       /\ Ok(IF idx < Len(tables) THEN "cd_show_create" ELSE "cd_fk_on")
          ELSE UNCHANGED <<rows, idx>> /\ DriverError("cd_finally")
  /\ UNCHANGED <<envS, target, tgtConn, result, source_cursor, target_cursor, tables,
                 create_table_stmt, log>>

(* SELECT * and fetchall; "if rows:" skips the insert for an empty table. *)
CloneSelect ==
  /\ pc = "cd_select"
  /\ \E o \in SourceOutcomes :
       /\ slog' = slog + 1
       /\ SourceConn(o)
       /\ IF o = "ok"
          THEN /\ rows' = SourceRows(tables[idx])
               /\ Ok(IF SourceRows(tables[idx]) # <<>> THEN "cd_insert" ELSE "cd_commit")
          ELSE UNCHANGED rows /\ DriverError("cd_finally")
  /\ UNCHANGED <<envS, target, tgtConn, result, source_cursor, target_cursor, tables, idx,
                 create_table_stmt, log>>

(* The insert sending only the first fetched row. *)
CloneInsertFirstRow ==
  /\ pc = "cd_insert"
  /\ TryTarget(StmtInsert(tables[idx].name, tables[idx].cols, <<rows[1]>>), "cd_commit", "cd_finally")
  /\ UNCHANGED <<env, result, source_cursor, target_cursor, tables, idx,
                 create_table_stmt, rows, slog>>

(* columns = list(rows[0].keys()); executemany of the INSERT. *)
CloneInsert ==
  /\ pc = "cd_insert"
  /\ TryTarget(StmtInsert(tables[idx].name, tables[idx].cols, rows), "cd_commit", "cd_finally")
  /\ UNCHANGED <<env, result, source_cursor, target_cursor, tables, idx,
                 create_table_stmt, rows, slog>>

(* The loop without the per-table commit. *)
CloneCommitOmitted ==
  /\ pc = "cd_commit"
  /\ idx' = idx + 1
  /\ Ok(IF idx < Len(tables) THEN "cd_show_create" ELSE "cd_fk_on")
  /\ UNCHANGED <<env, target, tgtConn, log, result, source_cursor, target_cursor, tables,
                 create_table_stmt, rows, slog>>

(* self.connection.commit(), then the next table or the end of the loop. *)
CloneCommit ==
  /\ pc = "cd_commit"
  /\ \E o \in TargetOutcomes :
       /\ TargetExec(Stmt("COMMIT"), o)
       /\ IF o = "ok"
          THEN idx' = idx + 1 /\ Ok(IF idx < Len(tables) THEN "cd_show_create" ELSE "cd_fk_on")
          ELSE UNCHANGED idx /\ DriverError("cd_finally")
  /\ UNCHANGED <<env, result, source_cursor, target_cursor, tables,
                 create_table_stmt, rows, slog>>

(* SET FOREIGN_KEY_CHECKS = 1 and return True. *)
CloneFkOn ==
  /\ pc = "cd_fk_on"
  /\ \E o \in TargetOutcomes :
       /\ TargetExec(Stmt("FK1"), o)
       /\ IF o = "ok"
          THEN pc' = "cd_finally" /\ ret' = "true" /\ UNCHANGED exc
          ELSE DriverError("cd_finally")
  /\ UNCHANGED <<env, result, source_cursor, target_cursor, tables, idx,
                 create_table_stmt, rows, slog>>

(* A finally block that only closes the cursors. *)
CloneFinallyWithoutRestore ==
  /\ pc = "cd_finally"
  /\ source_cursor' = Close(source_cursor)
  /\ target_cursor' = Close(target_cursor)
  /\ result' = Outcome
  /\ pc' = "done"
  /\ UNCHANGED <<env, target, tgtConn, log, ret, exc, tables, idx, create_table_stmt,
                 rows, slog>>

(* finally: if the target is connected, SET FOREIGN_KEY_CHECKS = 1 again; *)
(* "except: pass" swallows its failure, and the NameError of an unbound   *)
(* target_cursor.  Then the cursors that were opened are closed and the   *)
(* operation ends.                                                        *)
CloneFinally ==
  /\ pc = "cd_finally"
  /\ IF tgtConn = "live" /\ target_cursor # "unbound"
     THEN \E o \in TargetOutcomes : TargetExec(Stmt("FK1"), o)
     ELSE UNCHANGED <<target, tgtConn, log>>
  /\ source_cursor' = Close(source_cursor)
  /\ target_cursor' = Close(target_cursor)
  /\ result' = Outcome
  /\ pc' = "done"
  /\ UNCHANGED <<env, ret, exc, tables, idx, create_table_stmt, rows, slog>>

CloneSteps ==
  \/ CloneSourceCursor \/ CloneTargetCursor \/ CloneCreateDatabase \/ CloneUse
  \/ CloneFkOff \/ CloneSourceUse \/ CloneShowTables \/ CloneShowCreate
  \/ CloneUseTable \/ CloneDrop \/ CloneCreate \/ CloneSelect \/ CloneInsert
  \/ CloneCommit \/ CloneFkOn \/ CloneFinally

NextClone == ConnectSource \/ ConnectTarget \/ CallClone \/ CloneSteps \/ Return
SpecClone == Init /\ [][NextClone]_vars


(* ---------------------------------------------------------------------- *)
(* Database.clone_single_table                                            *)
(* ---------------------------------------------------------------------- *)
InSource(name) == \E k \in 1..Len(source) : source[k].name = name
Lookup(name) == source[CHOOSE k \in 1..Len(source) : source[k].name = name]

CallSingle ==
  /\ Enter("single", check_connection(tgtConn) /\ check_connection(srcConn), "st_source_cursor")
  /\ \E name \in AllNames : table_name' = name
  /\ data_df' = NoFrame
  /\ columns' = NoneCols
  /\ file' = NoFile

SingleSourceCursor ==
  /\ pc = "st_source_cursor"
  /\ \E o \in SourceOutcomes :
       /\ SourceConn(o)
       /\ IF o = "ok" THEN source_cursor' = "open" /\ Ok("st_target_cursor")
          ELSE UNCHANGED source_cursor /\ DriverError("st_finally")
  /\ UNCHANGED <<envS, target, tgtConn, result, target_cursor, tables, idx,
                 create_table_stmt, rows, log, slog>>

SingleTargetCursor ==
  /\ pc = "st_target_cursor"
  /\ \E o \in TargetOutcomes :
       /\ TargetCursor(o)
       /\ IF o = "ok" THEN Ok("st_create_database") ELSE DriverError("st_finally")
  /\ UNCHANGED <<env, result, source_cursor, tables, idx, create_table_stmt, rows, log, slog>>

SingleCreateDatabase ==
  /\ pc = "st_create_database"
  /\ TryTarget(Stmt("CREATE DATABASE"), "st_use", "st_finally")
  /\ UNCHANGED <<env, result, source_cursor, target_cursor, tables, idx,
                 create_table_stmt, rows, slog>>

SingleUse ==
  /\ pc = "st_use"
  /\ TryTarget(Stmt("USE"), "st_fk_off", "st_finally")
  /\ UNCHANGED <<env, result, source_cursor, target_cursor, tables, idx,
                 create_table_stmt, rows, slog>>

SingleFkOff ==
  /\ pc = "st_fk_off"
  /\ TryTarget(Stmt("FK0"), "st_source_use", "st_finally")
  /\ UNCHANGED <<env, result, source_cursor, target_cursor, tables, idx,
                 create_table_stmt, rows, slog>>

SingleSourceUse ==
  /\ pc = "st_source_use"
  /\ TrySource("st_show_tables_like", "st_finally")
  /\ UNCHANGED <<envS, target, tgtConn, result, source_cursor, target_cursor, tables, idx,
                 create_table_stmt, rows, log>>

(* SHOW TABLES LIKE table_name; "if not fetchone(): return False". *)
SingleShowTablesLike ==
  /\ pc = "st_show_tables_like"
  /\ \E o \in SourceOutcomes :
       /\ slog' = slog + 1
       /\ SourceConn(o)
       /\ IF o = "ok"
          THEN IF InSource(table_name) THEN Ok("st_show_create") ELSE DriverError("st_finally")
          ELSE DriverError("st_finally")
  /\ UNCHANGED <<envS, target, tgtConn, result, source_cursor, target_cursor, tables, idx,
                 create_table_stmt, rows, log>>

SingleShowCreate ==
  /\ pc = "st_show_create"
  /\ \E o \in ShowCreateOutcomes :
       /\ slog' = slog + 1
       /\ SourceConn(o)
       /\ CASE o = "ok" ->
                 /\ create_table_stmt' =
                      modified_create_stmt(ShowCreate(Lookup(table_name)), SourceDbName, target.name)
                 /\ Ok("st_use_table")
            [] o \in {"err", "lost"} -> UNCHANGED create_table_stmt /\ DriverError("st_finally")
            [] o = "nokey" -> UNCHANGED create_table_stmt /\ OtherError("st_finally")
  /\ UNCHANGED <<envS, target, tgtConn, result, source_cursor, target_cursor, tables, idx,
                 rows, log>>

SingleUseTable ==
  /\ pc = "st_use_table"
  /\ TryTarget(Stmt("USE"), "st_drop", "st_finally")
  /\ UNCHANGED <<env, result, source_cursor, target_cursor, tables, idx,
                 create_table_stmt, rows, slog>>

SingleDrop ==
  /\ pc = "st_drop"
  /\ TryTarget(StmtT("DROP TABLE", table_name), "st_create", "st_finally")
  /\ UNCHANGED <<env, result, source_cursor, target_cursor, tables, idx,
                 create_table_stmt, rows, slog>>

SingleCreate ==
  /\ pc = "st_create"
  /\ TryTarget(StmtCreate(create_table_stmt), "st_select", "st_finally")
  /\ UNCHANGED <<env, result, source_cursor, target_cursor, tables, idx,
                 create_table_stmt, rows, slog>>

SingleSelect ==
  /\ pc = "st_select"
  /\ \E o \in SourceOutcomes :
       /\ slog' = slog + 1
       /\ SourceConn(o)
       /\ IF o = "ok"
          THEN /\ rows' = SourceRows(Lookup(table_name))
               /\ Ok(IF SourceRows(Lookup(table_name)) # <<>> THEN "st_insert" ELSE "st_commit")
          ELSE UNCHANGED rows /\ DriverError("st_finally")
  /\ UNCHANGED <<envS, target, tgtConn, result, source_cursor, target_cursor, tables, idx,
                 create_table_stmt, log>>

SingleInsert ==
  /\ pc = "st_insert"
  /\ TryTarget(StmtInsert(table_name, Lookup(table_name).cols, rows), "st_commit", "st_finally")
  /\ UNCHANGED <<env, result, source_cursor, target_cursor, tables, idx,
                 create_table_stmt, rows, slog>>

SingleCommit ==
  /\ pc = "st_commit"
  /\ TryTarget(Stmt("COMMIT"), "st_fk_on", "st_finally")
  /\ UNCHANGED <<env, result, source_cursor, target_cursor, tables, idx,
                 create_table_stmt, rows, slog>>

SingleFkOn ==
  /\ pc = "st_fk_on"
  /\ \E o \in TargetOutcomes :
       /\ TargetExec(Stmt("FK1"), o)
       /\ IF o = "ok"
          THEN pc' = "st_finally" /\ ret' = "true" /\ UNCHANGED exc
          ELSE DriverError("st_finally")
  /\ UNCHANGED <<env, result, source_cursor, target_cursor, tables, idx,
                 create_table_stmt, rows, slog>>

(* finally: if the target is connected, SET FOREIGN_KEY_CHECKS = 1 again, *)
(* inside "try: ... finally: pass", which swallows nothing: a failure of  *)
(* the statement, or the NameError of an unbound target_cursor, leaves    *)
(* the function before the cursors are closed.  Otherwise the cursors     *)
(* that were opened are closed and the operation ends.                    *)
SingleFinally ==
  /\ pc = "st_finally"
  /\ pc' = "done"
  /\ IF tgtConn = "live"
     THEN IF target_cursor = "unbound"
          THEN /\ exc' = "raised" /\ result' = "raised"
               /\ UNCHANGED <<target, tgtConn, log, source_cursor, target_cursor>>
          ELSE \E o \in TargetOutcomes :
                 /\ TargetExec(Stmt("FK1"), o)
                 /\ IF o = "ok"
                    THEN /\ source_cursor' = Close(source_cursor)
                         /\ target_cursor' = Close(target_cursor)
                         /\ result' = Outcome
                         /\ UNCHANGED exc
                    ELSE /\ exc' = "raised" /\ result' = "raised"
                         /\ UNCHANGED <<source_cursor, target_cursor>>
     ELSE /\ source_cursor' = Close(source_cursor)
          /\ target_cursor' = Close(target_cursor)
          /\ result' = Outcome
          /\ UNCHANGED <<target, tgtConn, log, exc>>
  /\ UNCHANGED <<env, ret, tables, idx, create_table_stmt, rows, slog>>

SingleSteps ==
  \/ SingleSourceCursor \/ SingleTargetCursor \/ SingleCreateDatabase \/ SingleUse
  \/ SingleFkOff \/ SingleSourceUse \/ SingleShowTablesLike \/ SingleShowCreate
  \/ SingleUseTable \/ SingleDrop \/ SingleCreate \/ SingleSelect \/ SingleInsert
  \/ SingleCommit \/ SingleFkOn \/ SingleFinally

(* ---------------------------------------------------------------------- *)
(* Database.insert_data, on the target handle; its cursor is              *)
(* target_cursor.                                                         *)
(* ---------------------------------------------------------------------- *)
CallInsert ==
  /\ Enter("insert", check_connection(tgtConn), "in_cursor")
  /\ \E name \in InsertTables : table_name' = name
  /\ \E in \in InsertInputs : data_df' = in.df /\ columns' = in.columns
  /\ file' = NoFile

(* An exception leaves insert_data; import_json_to_database, which calls  *)
(* it inside its own try block, catches it and returns False.             *)
InsertRaises ==
  /\ pc' = "done"
  /\ exc' = IF op = "import" THEN "none" ELSE "raised"
  /\ result' = IF op = "import" THEN "false" ELSE "raised"

(* cursor = self.connection.cursor(), before the try block. *)
InsertCursor ==
  /\ pc = "in_cursor"
  /\ \E o \in TargetOutcomes :
       /\ TargetCursor(o)
       /\ IF o = "ok" THEN pc' = "in_use" /\ UNCHANGED <<exc, result>>
          ELSE InsertRaises
  /\ UNCHANGED <<env, ret, source_cursor, tables, idx, create_table_stmt, rows, log, slog>>

(* cursor.execute(USE ...), before the try block. *)
InsertUse ==
  /\ pc = "in_use"
  /\ \E o \in TargetOutcomes :
       LET s == Stmt("USE") IN
       /\ TargetExec(s, o)
       /\ IF Succeeds(s, o) THEN pc' = "in_records" /\ UNCHANGED <<exc, result>>
          ELSE InsertRaises
  /\ UNCHANGED <<env, ret, source_cursor, target_cursor, tables, idx, create_table_stmt,
                 rows, slog>>

(* data_df.replace({np.nan: None}) *)
Normalize(v) == IF v = NaN THEN Null ELSE v
(* columns = data_df.columns.tolist() when none are given *)
InsertColumns == IF columns = NoneCols THEN data_df.cols ELSE columns
(* record = tuple(row[column] for column in columns), for each row *)
Records ==
  [k \in 1..Len(data_df.rows) |-> [c \in Range(InsertColumns) |-> Normalize(data_df.rows[k][c])]]

(* The records are built before the try block: a column the frame lacks  *)
(* is a KeyError as soon as there is a row.                               *)
InsertRecords ==
  /\ pc = "in_records"
  /\ IF data_df.rows # <<>> /\ ~(Range(InsertColumns) \subseteq Range(data_df.cols))
     THEN InsertRaises /\ UNCHANGED rows
     ELSE rows' = Records /\ pc' = "in_executemany" /\ UNCHANGED <<exc, result>>
  /\ UNCHANGED <<env, target, tgtConn, ret, source_cursor, target_cursor, tables, idx,
                 create_table_stmt, log, slog>>

(* cursor.executemany(insert_query, records): nothing is sent for an      *)
(* empty batch.                                                           *)
InsertExecutemany ==
  /\ pc = "in_executemany"
  /\ IF rows = <<>>
     THEN Ok("in_commit") /\ UNCHANGED <<target, tgtConn, log>>
     ELSE TryTarget(StmtInsert(table_name, InsertColumns, rows), "in_commit", "in_close")
  /\ UNCHANGED <<env, result, source_cursor, target_cursor, tables, idx,
                 create_table_stmt, rows, slog>>

InsertCommit ==
  /\ pc = "in_commit"
  /\ \E o \in TargetOutcomes :
       /\ TargetExec(Stmt("COMMIT"), o)
       /\ IF o = "ok"
          THEN pc' = "in_close" /\ ret' = "true" /\ UNCHANGED exc
          ELSE DriverError("in_close")
  /\ UNCHANGED <<env, result, source_cursor, target_cursor, tables, idx,
                 create_table_stmt, rows, slog>>

(* finally: cursor.close() *)
InsertClose ==
  /\ pc = "in_close"
  /\ target_cursor' = Close(target_cursor)
  /\ result' = Outcome
  /\ pc' = "done"
  /\ UNCHANGED <<env, target, tgtConn, ret, exc, source_cursor, tables, idx,
                 create_table_stmt, rows, log, slog>>

InsertSteps ==
  \/ InsertCursor \/ InsertUse \/ InsertRecords \/ InsertExecutemany
  \/ InsertCommit \/ InsertClose

(* ---------------------------------------------------------------------- *)
(* Database.import_json_to_database: the checks on the document, then     *)
(* insert_data with the frame's own columns.                              *)
(* ---------------------------------------------------------------------- *)
CallImport ==
  \E j \in JsonFiles :
    /\ Enter("import",
             j.kind = "json" /\ j.keys /\ j.frame.rows # <<>> /\ check_connection(tgtConn),
             "in_cursor")
    /\ file' = j
    /\ \E name \in InsertTables : table_name' = name
    /\ data_df' = j.frame
    /\ columns' = IF j.frame.cols = <<>> THEN NoneCols ELSE j.frame.cols

(* ---------------------------------------------------------------------- *)
(* Database.create_table, on the target handle: no connection check and   *)
(* no try block; it returns None.                                         *)
(* ---------------------------------------------------------------------- *)
operation == [name |-> table_name, cols |-> data_df.cols]

CallCreateTable ==
  /\ Enter("create_table", TRUE, "ct_cursor")
  /\ \E o \in Operations : table_name' = o.name /\ data_df' = [cols |-> o.cols, rows |-> <<>>]
  /\ columns' = NoneCols
  /\ file' = NoFile

(* A statement outside any try block: its failure leaves the function. *)
Bare(s, next) ==
  \E o \in TargetOutcomes :
    /\ TargetExec(s, o)
    /\ IF Succeeds(s, o) THEN pc' = next /\ UNCHANGED <<exc, result>>
       ELSE exc' = "raised" /\ result' = "raised" /\ pc' = "done"

(* self.cursor = self.connection.cursor(): an AttributeError when there   *)
(* is no session, a driver error when the session is not connected.       *)
CreateTableCursor ==
  /\ pc = "ct_cursor"
  /\ \E o \in (IF tgtConn = "live" THEN TargetOutcomes ELSE {"err"}) :
       /\ TargetCursor(o)
       /\ IF o = "ok" THEN pc' = "ct_create_database" /\ UNCHANGED <<exc, result>>
          ELSE exc' = "raised" /\ result' = "raised" /\ pc' = "done"
  /\ UNCHANGED <<env, ret, source_cursor, tables, idx, create_table_stmt, rows, log, slog>>

CreateTableCreateDatabase ==
  /\ pc = "ct_create_database"
  /\ Bare(Stmt("CREATE DATABASE"), "ct_use")
  /\ UNCHANGED <<env, ret, source_cursor, target_cursor, tables, idx, create_table_stmt,
                 rows, slog>>

CreateTableUse ==
  /\ pc = "ct_use"
  /\ Bare(Stmt("USE"), "ct_execute")
  /\ UNCHANGED <<env, ret, source_cursor, target_cursor, tables, idx, create_table_stmt,
                 rows, slog>>

CreateTableExecute ==
  /\ pc = "ct_execute"
  /\ Bare(StmtCreate(operation), "ct_commit")
  /\ UNCHANGED <<env, ret, source_cursor, target_cursor, tables, idx, create_table_stmt,
                 rows, slog>>

CreateTableCommit ==
  /\ pc = "ct_commit"
  /\ Bare(Stmt("COMMIT"), "ct_close")
  /\ UNCHANGED <<env, ret, source_cursor, target_cursor, tables, idx, create_table_stmt,
                 rows, slog>>

CreateTableClose ==
  /\ pc = "ct_close"
  /\ target_cursor' = Close(target_cursor)
  /\ result' = "None"
  /\ pc' = "done"
  /\ UNCHANGED <<env, target, tgtConn, ret, exc, source_cursor, tables, idx,
                 create_table_stmt, rows, log, slog>>

CreateTableSteps ==
  \/ CreateTableCursor \/ CreateTableCreateDatabase \/ CreateTableUse
  \/ CreateTableExecute \/ CreateTableCommit \/ CreateTableClose

(* ---------------------------------------------------------------------- *)
(* Database.restore_from_sql_file, with the target handle as              *)
(* db_connection: everything is inside "try ... except Exception: return  *)
(* False", and the cursor is closed only on the path without an error.    *)
(* ---------------------------------------------------------------------- *)
CallRestore ==
  \E f \in SqlFiles :
    /\ Enter("restore", f.kind = "sql", "rs_cursor")
    /\ file' = f
    /\ table_name' = ""
    /\ data_df' = NoFrame
    /\ columns' = NoneCols

Caught == pc' = "done" /\ result' = "false" /\ ret' = "false" /\ UNCHANGED exc

RestoreCursor ==
  /\ pc = "rs_cursor"
  /\ \E o \in (IF tgtConn = "live" THEN TargetOutcomes ELSE {"err"}) :
       /\ TargetCursor(o)
       /\ IF o = "ok"
          THEN /\ idx' = 1
               /\ pc' = IF file.commands = <<>> THEN "rs_commit" ELSE "rs_execute"
               /\ UNCHANGED <<ret, exc, result>>
          ELSE Caught /\ UNCHANGED idx
  /\ UNCHANGED <<env, source_cursor, tables, create_table_stmt, rows, log, slog>>

(* for command in commands: if command.strip(): cursor.execute(command) *)
RestoreExecute ==
  /\ pc = "rs_execute"
  /\ IF file.commands[idx] = Blank
     THEN /\ idx' = idx + 1
          /\ pc' = IF idx < Len(file.commands) THEN "rs_execute" ELSE "rs_commit"
          /\ UNCHANGED <<target, tgtConn, log, ret, exc, result>>
     ELSE \E o \in TargetOutcomes :
            /\ TargetExec(file.commands[idx], o)
            /\ IF Succeeds(file.commands[idx], o)
               THEN /\ idx' = idx + 1
                    /\ pc' = IF idx < Len(file.commands) THEN "rs_execute" ELSE "rs_commit"
                    /\ UNCHANGED <<ret, exc, result>>
               ELSE Caught /\ UNCHANGED idx
  /\ UNCHANGED <<env, source_cursor, target_cursor, tables, create_table_stmt, rows, slog>>

(* db_connection.connection.commit(); cursor.close(); return True *)
RestoreCommit ==
  /\ pc = "rs_commit"
  /\ \E o \in TargetOutcomes :
       /\ TargetExec(Stmt("COMMIT"), o)
       /\ IF o = "ok"
          THEN /\ target_cursor' = Close(target_cursor)
               /\ pc' = "done" /\ ret' = "true" /\ result' = "true" /\ UNCHANGED exc
          ELSE Caught /\ UNCHANGED target_cursor
  /\ UNCHANGED <<env, source_cursor, tables, idx, create_table_stmt, rows, slog>>

RestoreSteps == RestoreCursor \/ RestoreExecute \/ RestoreCommit

NextSingle == ConnectSource \/ ConnectTarget \/ CallSingle \/ SingleSteps
SpecSingle == Init /\ [][NextSingle]_vars

Next ==
  \/ ConnectSource \/ ConnectTarget
  \/ CallClone \/ CloneSteps
  \/ CallSingle \/ SingleSteps
  \/ CallInsert \/ InsertSteps
  \/ CallImport
  \/ CallCreateTable \/ CreateTableSteps
  \/ CallRestore \/ RestoreSteps
  \/ Return
Spec == Init /\ [][Next]_vars


NextClones ==
  \/ ConnectSource \/ ConnectTarget
  \/ CallClone \/ CloneSteps
  \/ CallSingle \/ SingleSteps
  \/ Return
SpecClones == Init /\ [][NextClones]_vars

(* ====================================================================== *)
(* Properties.                                                            *)
(* ====================================================================== *)
Last(s) == s[Len(s)]
Front(s) == SubSeq(s, 1, Len(s) - 1)
IsPrefix(a, b) == Len(a) <= Len(b) /\ \A p \in 1..Len(a) : a[p] = b[p]

CloneEnded == pc = "done" /\ op = "clone"
HealthyEntry == pre.tgtConn = "live" /\ pre.srcConn = "live"
DataOps == {"clone", "single", "insert"}

(* The rewrite leaves the table's creation statement as it is. *)
Unrewritten(t) == modified_create_stmt(ShowCreate(t), SourceDbName, target.name) = ShowCreate(t)

(* The target holds, committed, a table of t's name with t's columns and  *)
(* t's rows.                                                              *)
SameAsSource(t) ==
  LET tt == target.tables[t.name] IN
  /\ tt # NoTable
  /\ Range(tt.cols) = Range(t.cols)
  /\ tt.rows = SourceRows(t)
  /\ tt.pend = <<>>

OkCommits == Cardinality({p \in 1..Len(log) : log[p].k = "COMMIT" /\ log[p].ok})

(* C1 as stated: when a clone that started with both handles healthy      *)
(* ends, on any path, with the target session still there, foreign-key    *)
(* enforcement on that session is enabled.                                *)
C1_FkEnabledAtEnd ==
  (CloneEnded /\ HealthyEntry /\ tgtConn = "live") => target.fk

(* C1 amended: when such a clone, started on a session with enforcement   *)
(* enabled, ends with the target session still connected and the restore  *)
(* statement of the cleanup step did not itself fail, foreign-key         *)
(* enforcement on the session is enabled.                                 *)
C1_FkEnabledUnlessRestoreFails ==
  (/\ CloneEnded /\ HealthyEntry /\ tgtConn = "live" /\ pre.fk
   /\ ~(log # <<>> /\ Last(log).k = "FK1" /\ ~Last(log).ok))
  => target.fk

(* A clone turned enforcement off, failed, and the cleanup turned it on. *)
C1_Witness ==
  /\ CloneEnded /\ result = "false" /\ tgtConn = "live" /\ target.fk
  /\ \E p \in 1..Len(log) : log[p].k = "FK0" /\ log[p].ok
  /\ Last(log).k = "FK1" /\ Last(log).ok
  /\ \E p \in 1..Len(log) : log[p].k = "DROP TABLE" /\ ~log[p].ok

(* C2 as stated: a single-table clone of a name the source does not have, *)
(* in which no statement sent to the target fails, returns False having   *)
(* sent no CREATE DATABASE, DROP TABLE, CREATE TABLE or INSERT, and       *)
(* leaves the target's schemas, tables and rows as they were.             *)
C2_MissingTableTouchesNothing ==
  (/\ pc = "done" /\ op = "single" /\ HealthyEntry /\ ~InSource(table_name)
   /\ source_cursor # "unbound" /\ target_cursor # "unbound"
   /\ \A p \in 1..Len(log) : log[p].ok)
  => /\ result = "false"
     /\ \A p \in 1..Len(log) : log[p].k \notin TableLevel \cup {"CREATE DATABASE"}
     /\ target.schema = pre.schema
     /\ target.tables = pre.tables

(* C3 as stated: each of the full clone, the single-table clone and       *)
(* insert_data ends by returning True or False, never by raising.         *)
C3_NoExceptionPropagates ==
  (pc = "done" /\ op \in DataOps) => result \in {"true", "false"}

(* C8 as stated: none of the full clone, the single-table clone and       *)
(* insert_data ends while a cursor it opened is open.                     *)
C8_CursorsClosed ==
  (pc = "done" /\ op \in DataOps) => source_cursor # "open" /\ target_cursor # "open"


(* ---------------------------------------------------------------------- *)
(* The clone's failure semantics, result and repetition.                  *)
(* ---------------------------------------------------------------------- *)
Names(a, b) == {source[j].name : j \in a..b}
Images(a, b) == {Replace(source[j].name, SourceDbName, target.name) : j \in a..b}

(* The clone stopped inside the loop, at table idx of the listing. *)
StoppedAtTable == CloneEnded /\ result # "true" /\ tables = source /\ idx \in 1..Len(tables)

(* Nothing was sent to the target for a table after table idx. *)
NothingForLaterTables ==
  \A p \in 1..Len(log) :
    /\ log[p].k \in {"DROP TABLE", "INSERT"} => log[p].t \in Names(1, idx)
    /\ log[p].k = "CREATE TABLE" => log[p].t \in Images(1, idx)

(* Every table of the listing was processed and no statement of the try   *)
(* block failed: the loop is over, and the statement that enables         *)
(* enforcement again at the end of the try block succeeded, as did every  *)
(* statement before it.                                                   *)
AllProcessed ==
  /\ tables = source
  /\ idx = Len(source) + 1
  /\ OkCommits = Len(source)
  /\ \E p \in 1..Len(log) :
       /\ log[p].k = "FK1"
       /\ \A q \in 1..p : log[q].ok

(* C4 as stated: a clone stopped by a database error at the k-th table    *)
(* returns False, every table before the k-th is in the target with its   *)
(* rows committed, nothing was sent for a table after the k-th; and the   *)
(* clone returns True only if every table was processed without error.    *)
C4_PartialFailure ==
  /\ StoppedAtTable =>
       /\ ret = "false" => result = "false"
       /\ \A j \in 1..(idx - 1) : SameAsSource(source[j])
       /\ NothingForLaterTables
  /\ (CloneEnded /\ result = "true") => AllProcessed

(* C4 amended: the same, where "every table before the k-th" is every     *)
(* such table that has a row or whose creation statement the rewrite of   *)
(* the schema name leaves unchanged.                                      *)
C4_PartialFailureUnrewritten ==
  /\ StoppedAtTable =>
       /\ ret = "false" => result = "false"
       /\ \A j \in 1..(idx - 1) :
            (source[j].n > 0 \/ Unrewritten(source[j])) => SameAsSource(source[j])
       /\ NothingForLaterTables
  /\ (CloneEnded /\ result = "true") => AllProcessed

(* The clone failed at its second table by a database error; the first,   *)
(* which has rows and replaced an unrelated table, stays committed.       *)
C4_Witness ==
  /\ StoppedAtTable /\ result = "false" /\ idx = 2
  /\ source[1].n > 0
  /\ pre.tables[source[1].name] = OldTable
  /\ SameAsSource(source[1])
  /\ target.tables[source[2].name] = NoTable

(* C5 as stated: when the clone returns True the target holds, for every  *)
(* table of the source, a table of that name with the same columns and    *)
(* the same rows.                                                         *)
C5_ClonedEqualsSource ==
  (CloneEnded /\ result = "true") => \A j \in 1..Len(source) : SameAsSource(source[j])

(* C5 amended: when the clone returns True the target holds such a table  *)
(* for every table of the source that has a row or whose creation         *)
(* statement the rewrite of the schema name leaves unchanged.             *)
C5_ClonedEqualsSourceUnrewritten ==
  (CloneEnded /\ result = "true") =>
    \A j \in 1..Len(source) :
      (source[j].n > 0 \/ Unrewritten(source[j])) => SameAsSource(source[j])

(* A clone of two tables, one with rows, over unrelated tables of the     *)
(* same names, returned True.                                             *)
C5_Witness ==
  /\ CloneEnded /\ result = "true" /\ Len(source) = 2
  /\ \E j \in 1..2 : source[j].n > 0 /\ pre.tables[source[j].name] = OldTable
  /\ \A j \in 1..2 : SameAsSource(source[j])

(* C6: a clone that returns True right after a clone that returned True   *)
(* leaves the target's schema and tables as the first left them; and a    *)
(* clone that returns True leaves the destination schema existing.        *)
C6_RepeatIsIdempotent ==
  (CloneEnded /\ result = "true") =>
    /\ target.schema
    /\ hist # <<>> => (target.tables = pre.tables /\ pre.schema)

(* The second of two clones that returned True, of a source with rows,    *)
(* the first of which found no destination schema.                        *)
C6_Witness ==
  /\ CloneEnded /\ result = "true" /\ Len(hist) = 1
  /\ hist[1].op = "clone" /\ hist[1].result = "true" /\ ~hist[1].schema
  /\ \E j \in 1..Len(source) : source[j].n > 0 /\ SameAsSource(source[j])

(* C7: a full or single-table clone entered with a handle that is not     *)
(* healthy returns False having opened no cursor and sent no statement    *)
(* to either server; and a handle passes check_connection only with a     *)
(* live session.                                                          *)
C7_UnhealthyReturnsAtOnce ==
  /\ (pc = "done" /\ op \in {"clone", "single"} /\ ~HealthyEntry) =>
       /\ result = "false"
       /\ log = <<>> /\ slog = 0
       /\ source_cursor = "unbound" /\ target_cursor = "unbound"
       /\ target.schema = pre.schema /\ target.tables = pre.tables
  /\ (pc \notin {"idle", "done"} /\ op \in {"clone", "single"}) => HealthyEntry

(* A clone entered with a target session that exists but is not live.    *)
C7_Witness ==
  /\ pc = "done" /\ op \in {"clone", "single"}
  /\ pre.tgtConn = "dead" /\ pre.srcConn = "live" /\ result = "false"

(* C9 as stated: when the clone returns True, every table of the source   *)
(* with no rows had no INSERT sent for it and is in the target, empty,    *)
(* with the source table's columns; and every table was committed.        *)
C9_EmptyTableCloned ==
  (CloneEnded /\ result = "true") =>
    /\ OkCommits = Len(source)
    /\ \A j \in 1..Len(source) : source[j].n = 0 =>
         /\ \A p \in 1..Len(log) : log[p].k = "INSERT" => log[p].t # source[j].name
         /\ SameAsSource(source[j])

(* C9 amended: the same for every table with no rows whose creation       *)
(* statement the rewrite of the schema name leaves unchanged.             *)
C9_EmptyTableClonedUnrewritten ==
  (CloneEnded /\ result = "true") =>
    /\ OkCommits = Len(source)
    /\ \A j \in 1..Len(source) : source[j].n = 0 =>
         /\ \A p \in 1..Len(log) : log[p].k = "INSERT" => log[p].t # source[j].name
         /\ Unrewritten(source[j]) => SameAsSource(source[j])

(* users(id) with two rows and orders(id) with none: both are in the      *)
(* target afterwards, users with its two rows, orders empty, foreign-key  *)
(* enforcement on.                                                        *)
C9_Witness ==
  /\ CloneEnded /\ result = "true" /\ target.fk
  /\ source = <<[name |-> "users", cols |-> <<"id">>, n |-> MaxRows],
                [name |-> "orders", cols |-> <<"id">>, n |-> 0]>>
  /\ Len(target.tables["users"].rows) = MaxRows
  /\ target.tables["orders"] = [cols |-> <<"id">>, rows |-> <<>>, pend |-> <<>>]

(* ---------------------------------------------------------------------- *)
(* The order of the statements the clone sends to the target.             *)
(* ---------------------------------------------------------------------- *)
Sent(k, t) == [k |-> k, t |-> t]
TableStmts(t) ==
  <<Sent("USE", ""), Sent("DROP TABLE", t.name),
    Sent("CREATE TABLE", Replace(t.name, SourceDbName, target.name))>>
  \o (IF t.n > 0 THEN <<Sent("INSERT", t.name)>> ELSE <<>>)
  \o <<Sent("COMMIT", "")>>
RECURSIVE LoopStmts(_)
LoopStmts(l) == IF l = <<>> THEN <<>> ELSE TableStmts(Head(l)) \o LoopStmts(Tail(l))
Expected ==
  <<Sent("CREATE DATABASE", ""), Sent("USE", ""), Sent("FK0", "")>>
  \o LoopStmts(source) \o <<Sent("FK1", "")>>
SentLog == [p \in 1..Len(log) |-> Sent(log[p].k, log[p].t)]

(* C10: the statements the clone's try block sends to the target are a    *)
(* prefix of: create schema, select it, disable enforcement, then for     *)
(* each table in listing order select, drop, create, insert (if it has    *)
(* rows), commit, then enable enforcement; none follows a failed one but  *)
(* the restore of the cleanup step; and whenever a drop, create or insert *)
(* is about to be sent the schema exists and enforcement is disabled.     *)
C10_StatementOrder ==
  op = "clone" =>
    /\ \A sent \in {SentLog}, expected \in {Expected} :
         \/ IsPrefix(sent, expected)
         \/ /\ pc \in {"done", "idle"}
            /\ sent # <<>> /\ Last(sent).k = "FK1" /\ IsPrefix(Front(sent), expected)
    /\ \A p \in 1..(Len(log) - 1) :
         ~log[p].ok => (p = Len(log) - 1 /\ pc \in {"done", "idle"})
    /\ pc \in {"cd_drop", "cd_create", "cd_insert"} =>
         target.schema /\ ~target.fk /\ tgtConn = "live"

(* The clone is about to insert the rows of its second table. *)
C10_Witness ==
  /\ op = "clone" /\ pc = "cd_insert" /\ idx = 2
  /\ Len(log) > Len(TableStmts(source[1]))
  /\ ~pre.schema

=============================================================================
